---- MODULE Spec2Model ----
(***************************************************************************)
(* A model of GraphSearcher (src/app.py): the entity registry              *)
(* (get_or_create_node, get_node_id), the edge registry (add_edge), the    *)
(* page resolver (find_wiki_page), the relation extractor                  *)
(* (get_infobox_data) and the traversal engine (run_search_generator).     *)
(*                                                                         *)
(* Strings that the code takes apart (titles, URLs) are sequences of       *)
(* one-character strings.  Weights are counted in halves (2.0 is 4, 1.0 is *)
(* 2, degree * 0.5 is degree).  An optional value is <<>> for None and     *)
(* <<v>> for v; an optional node id is -1 for None.                        *)
(***************************************************************************)
EXTENDS Integers, Sequences, FiniteSets, TLC

VARIABLES
    graph_nodes,      \* self.graph_nodes: list of node dicts
    graph_edges,      \* self.graph_edges: list of edge dicts
    visited,          \* self.visited: set of titles
    queue,            \* self.queue: deque of (cur, parent, depth)
    node_id_counter,  \* self.node_id_counter
    node_cache,       \* self.node_cache: dict (label, type) -> nid, in insertion order
    edge_cache,       \* self.edge_cache: set of (src, tgt, relation)
    pc,               \* where run_search_generator stands (or "api": driven by a client)
    world,            \* which web the fetches see
    root_company,     \* argument of run_search_generator
    max_depth,        \* argument of run_search_generator
    root_title,       \* local of run_search_generator: what find_wiki_page returned
    processed,        \* local of run_search_generator
    item,             \* the work item popped last: (cur, parent, depth)
    events,           \* the events yielded so far
    fetches,          \* history: requests.get calls made (resolver, extractor, failed)
    fetched,          \* history: the work items get_infobox_data was called for
    extracted,        \* history: the (page, relation, title) items the extractor returned
    links_read,       \* history: number of infobox links read so far
    dropped,          \* history: add_edge calls that returned at the None check
    requested,        \* history: the (source, target, relation) of the add_edge calls
    root_response,    \* history: what requests.get did in find_wiki_page
    call              \* history: the last registry call made by a client

vars == <<graph_nodes, graph_edges, visited, queue, node_id_counter, node_cache,
          edge_cache, pc, world, root_company, max_depth, root_title, processed, item,
          events, fetches, fetched, extracted, links_read, dropped, requested,
          root_response, call>>

registry == <<graph_nodes, graph_edges, node_id_counter, node_cache, edge_cache>>
inputs == <<world, root_company, max_depth>>
logs == <<fetches, fetched, extracted, links_read>>

----------------------------------------------------------------------------
(* Bounds of the model *)

\* largest max_depth tried in the small web
MaxDepth == 2
\* most infobox links read in one traversal of the small web
MaxLinks == 3
\* most nodes / edges a client of the registries creates
MaxApiNodes == 2
MaxApiEdges == 2
\* pages of the chain web beyond the ceiling
ChainExtra == 1

----------------------------------------------------------------------------
(* Strings *)

None == <<>>
Some(v) == <<v>>
NoneId == -1

Max(a, b) == IF a >= b THEN a ELSE b

Range(f) == {f[i] : i \in DOMAIN f}

\* s.replace(a, b) for one-character a and b
Replace(s, a, b) == [i \in 1..Len(s) |-> IF s[i] = a THEN b ELSE s[i]]

\* position of the first c in s, or Len(s) + 1
FirstIndex(s, c) ==
    IF \E i \in 1..Len(s) : s[i] = c
    THEN CHOOSE i \in 1..Len(s) : s[i] = c /\ \A j \in 1..(i - 1) : s[j] # c
    ELSE Len(s) + 1

\* position of the last c in s, or 0
LastIndex(s, c) ==
    IF \E i \in 1..Len(s) : s[i] = c
    THEN CHOOSE i \in 1..Len(s) : s[i] = c /\ \A j \in (i + 1)..Len(s) : s[j] # c
    ELSE 0

\* s.strip(): leading and trailing blanks removed
Strip(s) ==
    IF \A i \in 1..Len(s) : s[i] = " " THEN <<>>
    ELSE LET a == CHOOSE i \in 1..Len(s) : s[i] # " " /\ \A j \in 1..(i - 1) : s[j] = " "
             b == CHOOSE i \in 1..Len(s) : s[i] # " " /\ \A j \in (i + 1)..Len(s) : s[j] = " "
         IN  SubSeq(s, a, b)

\* s.split('(')[0].strip()
SplitParen(s) == Strip(SubSeq(s, 1, FirstIndex(s, "(") - 1))

\* s.split('/')[-1]
LastSegment(s) == SubSeq(s, LastIndex(s, "/") + 1, Len(s))

\* re.sub(r'\s*\([^)]*\)$', '', s): a final "(...)" without ")" inside, and the
\* blanks before it, removed
StripTrailingParen(s) ==
    IF Len(s) >= 2 /\ s[Len(s)] = ")"
       /\ \E i \in 1..(Len(s) - 1) :
              s[i] = "(" /\ \A j \in (i + 1)..(Len(s) - 1) : s[j] # ")"
    THEN LET \* leftmost "(" from which the pattern matches up to the end
             open == CHOOSE i \in 1..(Len(s) - 1) :
                        /\ s[i] = "("
                        /\ \A j \in (i + 1)..(Len(s) - 1) : s[j] # ")"
                        /\ \A k \in 1..(i - 1) :
                              ~(s[k] = "(" /\ \A j \in (k + 1)..(Len(s) - 1) : s[j] # ")")
             \* the blanks right before it
             start == CHOOSE i \in 1..open :
                        /\ \A j \in i..(open - 1) : s[j] = " "
                        /\ (i = 1 \/ s[i - 1] # " ")
         IN  SubSeq(s, 1, start - 1)
    ELSE s

----------------------------------------------------------------------------
(* The object: the fields the registry methods read and write *)

Self == [graph_nodes |-> graph_nodes, graph_edges |-> graph_edges,
         node_id_counter |-> node_id_counter, node_cache |-> node_cache,
         edge_cache |-> edge_cache, queue |-> queue, visited |-> visited,
         dropped |-> dropped, requested |-> requested]

\* GraphSearcher.__init__
NewSearcher == [graph_nodes |-> <<>>, graph_edges |-> <<>>, node_id_counter |-> 0,
                node_cache |-> <<>>, edge_cache |-> {}, queue |-> <<>>,
                visited |-> {}, dropped |-> 0, requested |-> <<>>]

\* key in self.node_cache
CacheHas(cache, key) == \E i \in 1..Len(cache) : cache[i].key = key

\* self.node_cache[key]
CacheGet(cache, key) == cache[CHOOSE i \in 1..Len(cache) : cache[i].key = key].nid

\* a get_or_create_node that looks the entity up by its label alone
mut_get_or_create_by_label(s, label, node_type, weight) ==
    IF \E i \in 1..Len(s.node_cache) : s.node_cache[i].key[1] = label
    THEN [self |-> s,
          ret |-> s.node_cache[CHOOSE i \in 1..Len(s.node_cache) :
                                   s.node_cache[i].key[1] = label].nid]
    ELSE LET nid == s.node_id_counter
         IN  [self |-> [s EXCEPT
                 !.node_id_counter = nid + 1,
                 !.graph_nodes = Append(@, [id |-> ToString(nid), label |-> label,
                                            weight |-> weight, classes |-> node_type]),
                 !.node_cache = Append(@, [key |-> <<label, node_type>>, nid |-> nid])],
              ret |-> nid]

\* a get_or_create_node that does not advance the id counter
mut_get_or_create_same_id(s, label, node_type, weight) ==
    LET key == <<label, node_type>>
    IN  IF CacheHas(s.node_cache, key)
        THEN [self |-> s, ret |-> CacheGet(s.node_cache, key)]
        ELSE LET nid == s.node_id_counter
             IN  [self |-> [s EXCEPT
                     !.graph_nodes = Append(@, [id |-> ToString(nid), label |-> label,
                                                weight |-> weight, classes |-> node_type]),
                     !.node_cache = Append(@, [key |-> key, nid |-> nid])],
                  ret |-> nid]

\* get_or_create_node (with get_next_node_id inlined): the object afterwards and
\* the value returned
get_or_create_node(s, label, node_type, weight) ==
    LET key == <<label, node_type>>
    IN  IF CacheHas(s.node_cache, key)
        THEN [self |-> s, ret |-> CacheGet(s.node_cache, key)]
        ELSE LET nid == s.node_id_counter
             IN  [self |-> [s EXCEPT
                     !.node_id_counter = nid + 1,
                     !.graph_nodes = Append(@, [id |-> ToString(nid), label |-> label,
                                                weight |-> weight, classes |-> node_type]),
                     !.node_cache = Append(@, [key |-> key, nid |-> nid])],
                  ret |-> nid]

\* a get_node_id that returns the last cache entry with this label
mut_get_node_id_last(s, label) ==
    IF \E i \in 1..Len(s.node_cache) : s.node_cache[i].key[1] = label
    THEN s.node_cache[CHOOSE i \in 1..Len(s.node_cache) :
                          /\ s.node_cache[i].key[1] = label
                          /\ \A j \in (i + 1)..Len(s.node_cache) :
                                s.node_cache[j].key[1] # label].nid
    ELSE NoneId

\* get_node_id: the first cache entry, in insertion order, with this label
get_node_id(s, label) ==
    IF \E i \in 1..Len(s.node_cache) : s.node_cache[i].key[1] = label
    THEN s.node_cache[CHOOSE i \in 1..Len(s.node_cache) :
                          /\ s.node_cache[i].key[1] = label
                          /\ \A j \in 1..(i - 1) : s.node_cache[j].key[1] # label].nid
    ELSE NoneId

\* the kinds add_edge does not reorder
DirectedKinds == {"OWNS", "KEY_PERSON_OF", "PARENT_OF"}

\* a key that keeps the order of the call for every kind
mut_edge_key_literal(source_id, target_id, relation) == <<source_id, target_id, relation>>

\* a key that puts the smaller id first for every kind
mut_edge_key_all_ascending(source_id, target_id, relation) ==
    IF source_id > target_id
    THEN <<target_id, source_id, relation>>
    ELSE <<source_id, target_id, relation>>

\* the dedup key add_edge builds
edge_key(source_id, target_id, relation) ==
    IF source_id > target_id /\ relation \notin DirectedKinds
    THEN <<target_id, source_id, relation>>
    ELSE <<source_id, target_id, relation>>

\* an add_edge that stores the endpoints in the order of its key
mut_add_edge_store_key(s, source_label, target_label, relation) ==
    LET source_id == get_node_id(s, source_label)
        target_id == get_node_id(s, target_label)
        key == edge_key(source_id, target_id, relation)
    IN  IF source_id = NoneId \/ target_id = NoneId
        THEN [s EXCEPT !.dropped = @ + 1]
        ELSE IF key \in s.edge_cache
        THEN s
        ELSE [s EXCEPT
                !.graph_edges = Append(@, [id |-> "e" \o ToString(Len(s.graph_edges)),
                                           source |-> ToString(key[1]),
                                           target |-> ToString(key[2]),
                                           label |-> relation]),
                !.edge_cache = @ \cup {key}]

\* an add_edge without the None check
mut_add_edge_no_check(s, source_label, target_label, relation) ==
    LET source_id == get_node_id(s, source_label)
        target_id == get_node_id(s, target_label)
        key == edge_key(source_id, target_id, relation)
    IN  IF key \in s.edge_cache
        THEN s
        ELSE [s EXCEPT
                !.graph_edges = Append(@, [id |-> "e" \o ToString(Len(s.graph_edges)),
                                           source |-> ToString(source_id),
                                           target |-> ToString(target_id),
                                           label |-> relation]),
                !.edge_cache = @ \cup {key}]

\* an add_edge that does not record the key of the edge it stores
mut_add_edge_no_cache(s, source_label, target_label, relation) ==
    LET source_id == get_node_id(s, source_label)
        target_id == get_node_id(s, target_label)
        key == edge_key(source_id, target_id, relation)
    IN  IF source_id = NoneId \/ target_id = NoneId
        THEN [s EXCEPT !.dropped = @ + 1]
        ELSE IF key \in s.edge_cache
        THEN s
        ELSE [s EXCEPT
                !.graph_edges = Append(@, [id |-> "e" \o ToString(Len(s.graph_edges)),
                                           source |-> ToString(source_id),
                                           target |-> ToString(target_id),
                                           label |-> relation])]

\* add_edge: the object afterwards
add_edge(s0, source_label, target_label, relation) ==
    LET s == [s0 EXCEPT !.requested = Append(@, <<source_label, target_label, relation>>)]
        source_id == get_node_id(s, source_label)
        target_id == get_node_id(s, target_label)
        key == edge_key(source_id, target_id, relation)
    IN  IF source_id = NoneId \/ target_id = NoneId
        THEN [s EXCEPT !.dropped = @ + 1]
        ELSE IF key \in s.edge_cache
        THEN s
        ELSE [s EXCEPT
                !.graph_edges = Append(@, [id |-> "e" \o ToString(Len(s.graph_edges)),
                                           source |-> ToString(source_id),
                                           target |-> ToString(target_id),
                                           label |-> relation]),
                !.edge_cache = @ \cup {key}]

----------------------------------------------------------------------------
(* The page resolver *)

WIKI_URL == <<"h","t","t","p","s",":","/","/","e","n",".","w","i","k","i","p","e",
              "d","i","a",".","o","r","g","/","w","i","k","i","/">>

\* page_url = WIKI_URL + title.replace(' ', '_')
PageUrl(title) == WIKI_URL \o Replace(title, " ", "_")

\* what requests.get can do: raise, or return a response (status_code, history
\* non-empty or not, final url)
NoResponse == [kind |-> "none", status_code |-> 0, history |-> FALSE, url |-> <<>>]
Raised == [kind |-> "exception", status_code |-> 0, history |-> FALSE, url |-> <<>>]
Response(status, redirected, url) ==
    [kind |-> "response", status_code |-> status, history |-> redirected, url |-> url]

\* find_wiki_page: None or the title
find_wiki_page(title, response) ==
    IF response.kind = "exception" THEN None
    ELSE IF response.status_code = 404 THEN None
    ELSE IF response.history THEN Some(Replace(LastSegment(response.url), "_", " "))
    ELSE Some(title)

\* "not root_title": None or the empty string
Falsy(opt) == opt = None \/ opt[1] = <<>>

\* an event of the stream: status, percent, the title and depth of its message,
\* and the data (nodes, edges) of the complete event
Event(status, percent, cur, depth) ==
    [status |-> status, percent |-> percent, cur |-> cur, depth |-> depth, data |-> <<>>]

\* a root step that yields the error event and goes on to the loop
mut_root_step_no_return(s, company, title) ==
    IF Falsy(title)
    THEN [self |-> s, emit |-> <<Event("error", 0, company, 0)>>, pc |-> "loop"]
    ELSE LET s1 == get_or_create_node(s, title[1], "company", 4).self
         IN  [self |-> [s1 EXCEPT !.queue = Append(@, <<title[1], None, 0>>)],
              emit |-> <<>>, pc |-> "loop"]

\* a root step that queues the root without registering it
mut_root_step_unregistered(s, company, title) ==
    IF Falsy(title)
    THEN [self |-> s, emit |-> <<Event("error", 0, company, 0)>>, pc |-> "error"]
    ELSE [self |-> [s EXCEPT !.queue = Append(@, <<title[1], None, 0>>)],
          emit |-> <<>>, pc |-> "loop"]

\* what follows find_wiki_page: the error event and the return, or the root node
\* and the root work item
root_step(s, company, title) ==
    IF Falsy(title)
    THEN [self |-> s, emit |-> <<Event("error", 0, company, 0)>>, pc |-> "error"]
    ELSE LET s1 == get_or_create_node(s, title[1], "company", 4).self
         IN  [self |-> [s1 EXCEPT !.queue = Append(@, <<title[1], None, 0>>)],
              emit |-> <<>>, pc |-> "loop"]

----------------------------------------------------------------------------
(* The relation extractor *)

RelationKinds == {"PARENT_OF", "OWNS", "FOUNDED", "KEY_PERSON_OF"}

\* the links of `links` (pairs <<relation, title>>) whose relation is rel, in order
RECURSIVE LinksOf(_, _)
LinksOf(links, rel) ==
    IF links = <<>> THEN <<>>
    ELSE IF links[1][1] = rel THEN <<links[1]>> \o LinksOf(Tail(links), rel)
    ELSE LinksOf(Tail(links), rel)

\* data.items() flattened: the dict keeps its relations in the order of their
\* first link, and under each relation its titles in document order
RECURSIVE DictItems(_)
DictItems(links) ==
    IF links = <<>> THEN <<>>
    ELSE LET rel == links[1][1]
             rest == SelectSeq(Tail(links), LAMBDA l : l[1] # rel)
         IN  LinksOf(links, rel) \o DictItems(rest)

\* a fetched page: the fetch failed, the page has no infobox, or its infobox has
\* these recognised links <<relation, title attribute>> in document order
FailedPage == [kind |-> "failed", links |-> <<>>]
NoInfobox == [kind |-> "no_infobox", links |-> <<>>]
Infobox(links) == [kind |-> "infobox", links |-> links]

\* get_infobox_data: the dict, as its items (relation, clean_title) in iteration order
get_infobox_data(page) ==
    IF page.kind # "infobox" THEN <<>>
    ELSE DictItems([i \in 1..Len(page.links) |->
                       <<page.links[i][1], StripTrailingParen(page.links[i][2])>>])

----------------------------------------------------------------------------
(* The traversal engine *)

limit == 300

\* int((processed / limit) * 100) in double arithmetic: the quotient is rounded,
\* and for 87, 171 and 174 the product falls just below the integer
Percent(p) ==
    IF limit = 300 /\ p \in {87, 171, 174} THEN ((100 * p) \div limit) - 1
    ELSE (100 * p) \div limit

\* a loop that runs once more at the ceiling
mut_loop_guard_inclusive(q, p) == q # <<>> /\ p <= limit

\* a loop that stops one item short of the ceiling
mut_loop_guard_short(q, p) == q # <<>> /\ p < limit - 1

\* the while condition: "self.queue and processed < limit"
loop_guard(q, p) == q # <<>> /\ p < limit

\* "if parent:": not None and not the empty string
Truthy(opt) == opt # None /\ opt[1] # <<>>

\* a loop body that enqueues while depth <= max_depth
mut_relation_step_depth(s, relation_type, title, cur, depth, md) ==
    LET person == relation_type \in {"FOUNDED", "KEY_PERSON_OF"}
        node_type == IF person THEN "person" ELSE "company"
        related_title == IF person THEN SplitParen(title) ELSE title
        s1 == get_or_create_node(s, related_title, node_type, 2).self
        s2 == IF relation_type \in {"KEY_PERSON_OF", "FOUNDED"}
              THEN add_edge(s1, related_title, cur, relation_type)
              ELSE IF relation_type = "PARENT_OF"
              THEN add_edge(s1, related_title, cur, "OWNS")
              ELSE IF relation_type = "OWNS"
              THEN add_edge(s1, cur, related_title, "OWNS")
              ELSE s1
        work == <<related_title, Some(cur), depth + 1>>
    IN  IF node_type = "company" /\ related_title \notin s2.visited /\ depth <= md
        THEN IF relation_type \in {"PARENT_OF", "OWNER"}
             THEN [s2 EXCEPT !.queue = <<work>> \o @]
             ELSE [s2 EXCEPT !.queue = Append(@, work)]
        ELSE s2

\* a loop body that enqueues persons as it does companies
mut_relation_step_persons(s, relation_type, title, cur, depth, md) ==
    LET person == relation_type \in {"FOUNDED", "KEY_PERSON_OF"}
        node_type == IF person THEN "person" ELSE "company"
        related_title == IF person THEN SplitParen(title) ELSE title
        s1 == get_or_create_node(s, related_title, node_type, 2).self
        s2 == IF relation_type \in {"KEY_PERSON_OF", "FOUNDED"}
              THEN add_edge(s1, related_title, cur, relation_type)
              ELSE IF relation_type = "PARENT_OF"
              THEN add_edge(s1, related_title, cur, "OWNS")
              ELSE IF relation_type = "OWNS"
              THEN add_edge(s1, cur, related_title, "OWNS")
              ELSE s1
        work == <<related_title, Some(cur), depth + 1>>
    IN  IF related_title \notin s2.visited /\ depth + 1 <= md
        THEN IF relation_type \in {"PARENT_OF", "OWNER"}
             THEN [s2 EXCEPT !.queue = <<work>> \o @]
             ELSE [s2 EXCEPT !.queue = Append(@, work)]
        ELSE s2

\* a loop body that puts every work item at the front of the queue
mut_relation_step_front(s, relation_type, title, cur, depth, md) ==
    LET person == relation_type \in {"FOUNDED", "KEY_PERSON_OF"}
        node_type == IF person THEN "person" ELSE "company"
        related_title == IF person THEN SplitParen(title) ELSE title
        s1 == get_or_create_node(s, related_title, node_type, 2).self
        s2 == IF relation_type \in {"KEY_PERSON_OF", "FOUNDED"}
              THEN add_edge(s1, related_title, cur, relation_type)
              ELSE IF relation_type = "PARENT_OF"
              THEN add_edge(s1, related_title, cur, "OWNS")
              ELSE IF relation_type = "OWNS"
              THEN add_edge(s1, cur, related_title, "OWNS")
              ELSE s1
        work == <<related_title, Some(cur), depth + 1>>
    IN  IF node_type = "company" /\ related_title \notin s2.visited /\ depth + 1 <= md
        THEN [s2 EXCEPT !.queue = <<work>> \o @]
        ELSE s2

\* a loop body that puts every work item at the back of the queue
mut_relation_step_back(s, relation_type, title, cur, depth, md) ==
    LET person == relation_type \in {"FOUNDED", "KEY_PERSON_OF"}
        node_type == IF person THEN "person" ELSE "company"
        related_title == IF person THEN SplitParen(title) ELSE title
        s1 == get_or_create_node(s, related_title, node_type, 2).self
        s2 == IF relation_type \in {"KEY_PERSON_OF", "FOUNDED"}
              THEN add_edge(s1, related_title, cur, relation_type)
              ELSE IF relation_type = "PARENT_OF"
              THEN add_edge(s1, related_title, cur, "OWNS")
              ELSE IF relation_type = "OWNS"
              THEN add_edge(s1, cur, related_title, "OWNS")
              ELSE s1
        work == <<related_title, Some(cur), depth + 1>>
    IN  IF node_type = "company" /\ related_title \notin s2.visited /\ depth + 1 <= md
        THEN [s2 EXCEPT !.queue = Append(@, work)]
        ELSE s2

\* a loop body that stores a PARENT_OF relation under its own kind
mut_relation_step_parent_kind(s, relation_type, title, cur, depth, md) ==
    LET person == relation_type \in {"FOUNDED", "KEY_PERSON_OF"}
        node_type == IF person THEN "person" ELSE "company"
        related_title == IF person THEN SplitParen(title) ELSE title
        s1 == get_or_create_node(s, related_title, node_type, 2).self
        s2 == IF relation_type \in {"KEY_PERSON_OF", "FOUNDED", "PARENT_OF"}
              THEN add_edge(s1, related_title, cur, relation_type)
              ELSE IF relation_type = "OWNS"
              THEN add_edge(s1, cur, related_title, "OWNS")
              ELSE s1
        work == <<related_title, Some(cur), depth + 1>>
    IN  IF node_type = "company" /\ related_title \notin s2.visited /\ depth + 1 <= md
        THEN IF relation_type \in {"PARENT_OF", "OWNER"}
             THEN [s2 EXCEPT !.queue = <<work>> \o @]
             ELSE [s2 EXCEPT !.queue = Append(@, work)]
        ELSE s2

\* the body of "for related_title in related_titles" for one item of the dict
relation_step(s, relation_type, title, cur, depth, md) ==
    LET person == relation_type \in {"FOUNDED", "KEY_PERSON_OF"}
        node_type == IF person THEN "person" ELSE "company"
        related_title == IF person THEN SplitParen(title) ELSE title
        s1 == get_or_create_node(s, related_title, node_type, 2).self
        s2 == IF relation_type \in {"KEY_PERSON_OF", "FOUNDED"}
              THEN add_edge(s1, related_title, cur, relation_type)
              ELSE IF relation_type = "PARENT_OF"
              THEN add_edge(s1, related_title, cur, "OWNS")
              ELSE IF relation_type = "OWNS"
              THEN add_edge(s1, cur, related_title, "OWNS")
              ELSE s1
        work == <<related_title, Some(cur), depth + 1>>
    IN  IF node_type = "company" /\ related_title \notin s2.visited /\ depth + 1 <= md
        THEN IF relation_type \in {"PARENT_OF", "OWNER"}
             THEN [s2 EXCEPT !.queue = <<work>> \o @]
             ELSE [s2 EXCEPT !.queue = Append(@, work)]
        ELSE s2

\* "for relation_type, related_titles in infobox_data.items()"
RECURSIVE relation_loop(_, _, _, _, _)
relation_loop(s, data, cur, depth, md) ==
    IF data = <<>> THEN s
    ELSE relation_loop(relation_step(s, data[1][1], data[1][2], cur, depth, md),
                       Tail(data), cur, depth, md)

\* a loop body that does not record the name as visited
mut_process_item_no_visit(s, cur, parent, depth, md, page) ==
    LET s2 == IF Truthy(parent) THEN add_edge(s, parent[1], cur, "OWNS") ELSE s
    IN  relation_loop(s2, get_infobox_data(page), cur, depth, md)

\* one pass of the while body after the progress event, for an item that is fetched
process_item(s, cur, parent, depth, md, page) ==
    LET s1 == [s EXCEPT !.visited = @ \cup {cur}]
        s2 == IF Truthy(parent) THEN add_edge(s1, parent[1], cur, "OWNS") ELSE s1
    IN  relation_loop(s2, get_infobox_data(page), cur, depth, md)

\* a degree that counts each endpoint field
mut_degree_fields(edges, nid) ==
    Cardinality({i \in 1..Len(edges) : edges[i].source = nid})
    + Cardinality({i \in 1..Len(edges) : edges[i].target = nid})

\* deg of the final weight calculation
Degree(edges, nid) ==
    Cardinality({i \in 1..Len(edges) : edges[i].source = nid \/ edges[i].target = nid})

\* the final weight calculation
final_weights(nodes, edges) ==
    [i \in 1..Len(nodes) |->
        [nodes[i] EXCEPT !.weight = Max(IF nodes[i].classes = "company" THEN 4 ELSE 2,
                                        Degree(edges, nodes[i].id))]]

----------------------------------------------------------------------------
(* The webs the fetches see *)

NA == <<"A">>
NB == <<"B">>
NG == <<"G", "(", "c", ")", "(", "d", ")">>

\* title attributes of the links of the small web
RawTitles == {NA, NB, NG}
\* the name the traversal is started with
RootInputs == {NA}
\* the final address of a redirected fetch: the address of another article
RedirectUrls == {PageUrl(NB)}

Links == RelationKinds \X RawTitles

\* the pages a fetch of the small web can return with n links still unread
SmallPages(n) ==
    {FailedPage, NoInfobox} \cup
    {Infobox(l) : l \in UNION {[1..k -> Links] : k \in 0..n}}

Digits == <<"0", "1", "2", "3", "4", "5", "6", "7", "8", "9">>

\* the chain web: page n lists page n + 1 as its only subsidiary
ChainLen == limit + ChainExtra
ChainName(n) == <<"c", Digits[(n \div 100) + 1], Digits[((n \div 10) % 10) + 1],
                  Digits[(n % 10) + 1]>>
ChainPage(title) ==
    LET n == CHOOSE k \in 0..ChainLen : ChainName(k) = title
    IN  IF n + 1 < ChainLen THEN Infobox(<<<<"OWNS", ChainName(n + 1)>>>>)
        ELSE Infobox(<<>>)

Pages(title) ==
    IF world = "chain" THEN {ChainPage(title)} ELSE SmallPages(MaxLinks - links_read)

\* what the resolver's fetch can do: the small web answers or redirects, the chain
\* web answers or fails with a server error
Responses(title) ==
    {Raised, Response(404, FALSE, PageUrl(title)), Response(200, FALSE, PageUrl(title))}
    \cup (IF world = "chain" THEN {Response(500, FALSE, PageUrl(title))}
          ELSE {Response(200, TRUE, u) : u \in RedirectUrls})

----------------------------------------------------------------------------------------------------------------------------------------------
(* run_search_generator, step by step *)

NoItem == <<<<>>, None, 0>>

\* the registry fields of the object
RegistryOf(s) == [graph_nodes |-> s.graph_nodes, graph_edges |-> s.graph_edges,
                  node_id_counter |-> s.node_id_counter, node_cache |-> s.node_cache,
                  edge_cache |-> s.edge_cache]

NoCall == [op |-> "none", a |-> <<>>, b |-> <<>>, c |-> "", w |-> 0, ret |-> NoneId,
           before |-> RegistryOf(NewSearcher)]

InitSelf ==
    /\ graph_nodes = NewSearcher.graph_nodes
    /\ graph_edges = NewSearcher.graph_edges
    /\ visited = NewSearcher.visited
    /\ queue = NewSearcher.queue
    /\ node_id_counter = NewSearcher.node_id_counter
    /\ node_cache = NewSearcher.node_cache
    /\ edge_cache = NewSearcher.edge_cache
    /\ root_title = None
    /\ processed = 0
    /\ item = NoItem
    /\ events = <<>>
    /\ fetches = [resolver |-> 0, extractor |-> 0, failed |-> 0]
    /\ fetched = <<>>
    /\ extracted = {}
    /\ links_read = 0
    /\ dropped = 0
    /\ requested = <<>>
    /\ root_response = NoResponse
    /\ call = NoCall

Init ==
    /\ InitSelf
    /\ pc = "idle"
    /\ \/ world = "small" /\ root_company \in RootInputs /\ max_depth \in 0..MaxDepth
       \/ world = "chain" /\ root_company = ChainName(0) /\ max_depth = ChainLen

SetSelf(s) ==
    /\ graph_nodes' = s.graph_nodes
    /\ graph_edges' = s.graph_edges
    /\ visited' = s.visited
    /\ queue' = s.queue
    /\ node_id_counter' = s.node_id_counter
    /\ node_cache' = s.node_cache
    /\ edge_cache' = s.edge_cache
    /\ dropped' = s.dropped
    /\ requested' = s.requested

\* the first yield
Start ==
    /\ pc = "idle"
    /\ events' = Append(events, Event("log", 0, root_company, 0))
    /\ pc' = "resolve"
    /\ UNCHANGED <<registry, visited, queue, inputs, root_title, processed, item,
                   logs, dropped, requested, root_response, call>>

\* root resolution: the error event, or the root node and the root work item
ResolveRoot ==
    /\ pc = "resolve"
    /\ \E resp \in Responses(root_company) :
          LET title == find_wiki_page(root_company, resp)
              r == root_step(Self, root_company, title)
          IN  /\ root_response' = resp
              /\ root_title' = title
              /\ SetSelf(r.self)
              /\ events' = events \o r.emit
              /\ pc' = r.pc
    /\ processed' = 0
    /\ fetches' = [fetches EXCEPT !.resolver = @ + 1]
    /\ UNCHANGED <<inputs, item, fetched, extracted, links_read, call>>

\* the loop guard holds: popleft and the progress event
Dequeue ==
    /\ pc = "loop"
    /\ loop_guard(queue, processed)
    /\ item' = Head(queue)
    /\ queue' = Tail(queue)
    /\ events' = Append(events, Event("progress", Percent(processed), Head(queue)[1],
                                      Head(queue)[3]))
    /\ pc' = "item"
    /\ UNCHANGED <<registry, visited, inputs, root_title, processed, logs, dropped,
                   requested, root_response, call>>

\* the rest of the loop body for the popped item
Process ==
    /\ pc = "item"
    /\ LET cur == item[1]
           parent == item[2]
           depth == item[3]
       IN  IF depth > max_depth \/ cur \in visited
           THEN UNCHANGED <<registry, visited, queue, processed, logs, dropped, requested>>
           ELSE \E page \in Pages(cur) :
                   /\ SetSelf(process_item(Self, cur, parent, depth, max_depth, page))
                   /\ processed' = processed + 1
                   /\ fetches' = [fetches EXCEPT
                                    !.extractor = @ + 1,
                                    !.failed = @ + (IF page.kind = "failed" THEN 1 ELSE 0)]
                   /\ fetched' = Append(fetched, <<cur, depth>>)
                   /\ extracted' = extracted \cup
                         {<<cur, d[1], d[2]>> : d \in Range(get_infobox_data(page))}
                   /\ links_read' = links_read + Len(page.links)
    /\ pc' = "loop"
    /\ UNCHANGED <<inputs, root_title, item, events, root_response, call>>

\* the loop guard fails: the final weights and the complete event
Finalize ==
    /\ pc = "loop"
    /\ ~loop_guard(queue, processed)
    /\ graph_nodes' = final_weights(graph_nodes, graph_edges)
    /\ events' = Append(events, [Event("complete", 100, <<>>, 0) EXCEPT
                                    !.data = <<graph_nodes', graph_edges>>])
    /\ pc' = "complete"
    /\ UNCHANGED <<graph_edges, node_id_counter, node_cache, edge_cache, visited, queue,
                   inputs, root_title, processed, item, logs, dropped, requested,
                   root_response, call>>

Next == Start \/ ResolveRoot \/ Dequeue \/ Process \/ Finalize

Spec == Init /\ [][Next]_vars

----------------------------------------------------------------------------
(* A client calling the registries directly *)

Kinds == {"company", "person"}
ApiNames == {NA, NB}
\* the entities the client registers, and the weights it passes: 2.0 when it
\* registers an entity first, 1.0 or 2.0 when it registers it again
ApiEntities == {<<NA, "company">>, <<NB, "company">>, <<NB, "person">>}
ApiWeights == {2, 4}

InitApi ==
    /\ InitSelf
    /\ pc = "api"
    /\ world = "none"
    /\ root_company = <<>>
    /\ max_depth = 0

\* one call of get_or_create_node
ApiGetOrCreate ==
    /\ pc = "api"
    /\ \E key \in ApiEntities, weight \in ApiWeights :
          LET r == get_or_create_node(Self, key[1], key[2], weight)
          IN  /\ weight = 4 \/ CacheHas(node_cache, key)
              /\ Len(r.self.graph_nodes) <= MaxApiNodes
              /\ SetSelf(r.self)
              /\ call' = [op |-> "get_or_create_node", a |-> key[1], b |-> <<>>,
                          c |-> key[2], w |-> weight, ret |-> r.ret,
                          before |-> RegistryOf(Self)]
    /\ UNCHANGED <<pc, inputs, root_title, processed, item, events, logs, root_response>>

\* one call of add_edge
ApiAddEdge ==
    /\ pc = "api"
    /\ \E source_label \in ApiNames, target_label \in ApiNames, relation \in RelationKinds :
          LET s1 == add_edge(Self, source_label, target_label, relation)
          IN  /\ Len(s1.graph_edges) <= MaxApiEdges
              /\ SetSelf([s1 EXCEPT !.dropped = dropped, !.requested = requested])
              /\ call' = [op |-> "add_edge", a |-> source_label, b |-> target_label,
                          c |-> relation, w |-> 0, ret |-> NoneId,
                          before |-> RegistryOf(Self)]
    /\ UNCHANGED <<pc, inputs, root_title, processed, item, events, logs, root_response>>

\* one call of get_node_id
ApiGetNodeId ==
    /\ pc = "api"
    /\ \E label \in ApiNames :
          call' = [op |-> "get_node_id", a |-> label, b |-> <<>>, c |-> "", w |-> 0,
                   ret |-> get_node_id(Self, label), before |-> RegistryOf(Self)]
    /\ UNCHANGED <<registry, visited, queue, dropped, requested, pc, inputs, root_title,
                   processed, item, events, logs, root_response>>

NextApi == ApiGetOrCreate \/ ApiAddEdge \/ ApiGetNodeId

SpecApi == InitApi /\ [][NextApi]_vars

----------------------------------------------------------------------------
(* Reading the stored graph back *)

\* int(s) for a stored id s = str(nid)
IdOf(s) == CHOOSE n \in 0..node_id_counter : ToString(n) = s

\* the id of the first node of `nodes` labelled `label`, whatever its kind
NodeNamed(nodes, label) ==
    IF \E i \in 1..Len(nodes) : nodes[i].label = label
    THEN LET i == CHOOSE k \in 1..Len(nodes) :
                     nodes[k].label = label /\ \A j \in 1..(k - 1) : nodes[j].label # label
         IN  IdOf(nodes[i].id)
    ELSE NoneId

\* is an entity (label, kind) among `nodes`
Registered(nodes, label, kind) ==
    \E i \in 1..Len(nodes) : nodes[i].label = label /\ nodes[i].classes = kind

IsPrefix(s, t) == Len(s) <= Len(t) /\ SubSeq(t, 1, Len(s)) = s

\* the endpoints of the last add_edge call, resolved in the registry it found
CallSource == NodeNamed(call.before.graph_nodes, call.a)
CallTarget == NodeNamed(call.before.graph_nodes, call.b)
CallResolved == call.op = "add_edge" /\ CallSource # NoneId /\ CallTarget # NoneId

\* the (source, target, kind) triple with the endpoints in ascending id order
\* unless the kind is one of `directed`
Canon(sid, tid, kind, directed) ==
    IF kind \in directed \/ sid <= tid THEN <<sid, tid, kind>> ELSE <<tid, sid, kind>>

EdgeTriple(e, directed) == Canon(IdOf(e.source), IdOf(e.target), e.label, directed)

\* the positions of the edges of `edges` of kind `kind` from sid to tid
EdgesFromTo(edges, sid, tid, kind) ==
    {i \in 1..Len(edges) : /\ edges[i].source = ToString(sid)
                           /\ edges[i].target = ToString(tid)
                           /\ edges[i].label = kind}

\* the positions of the edges of `edges` of kind `kind` between sid and tid
EdgesBetween(edges, sid, tid, kind) ==
    EdgesFromTo(edges, sid, tid, kind) \cup EdgesFromTo(edges, tid, sid, kind)

----------------------------------------------------------------------------
(* The claims about the registries, under SpecApi *)

\* C1: the node list holds at most one entity per (name, kind); get_or_create_node
\* of a registered (name, kind) returns the id given at its creation and leaves the
\* node list, the id counter and the cache as they were, whatever weight is passed;
\* of an unregistered one it appends the entity with the next id and that weight.
C1_EntityDedup ==
    /\ \A i, j \in 1..Len(graph_nodes) :
          (/\ graph_nodes[i].label = graph_nodes[j].label
           /\ graph_nodes[i].classes = graph_nodes[j].classes) => i = j
    /\ call.op = "get_or_create_node" =>
          IF Registered(call.before.graph_nodes, call.a, call.c)
          THEN /\ graph_nodes = call.before.graph_nodes
               /\ node_id_counter = call.before.node_id_counter
               /\ node_cache = call.before.node_cache
               /\ \E i \in 1..Len(graph_nodes) :
                     /\ graph_nodes[i].label = call.a
                     /\ graph_nodes[i].classes = call.c
                     /\ graph_nodes[i].id = ToString(call.ret)
          ELSE /\ call.ret = call.before.node_id_counter
               /\ node_id_counter = call.ret + 1
               /\ graph_nodes = Append(call.before.graph_nodes,
                                       [id |-> ToString(call.ret), label |-> call.a,
                                        weight |-> call.w, classes |-> call.c])

\* C1 witness: an entity registered again with a weight other than its stored one
C1_Witness ==
    /\ call.op = "get_or_create_node"
    /\ Registered(call.before.graph_nodes, call.a, call.c)
    /\ \E i \in 1..Len(graph_nodes) :
          /\ graph_nodes[i].label = call.a
          /\ graph_nodes[i].classes = call.c
          /\ graph_nodes[i].weight # call.w
    /\ Len(graph_nodes) >= 2

SpecDirected == {"OWNS", "KEY_PERSON_OF", "PARENT_OF"}

\* C2: no two stored edges share a canonical (source, target, kind) triple; an
\* add_edge with both names registered leaves exactly one stored edge with the
\* call's canonical triple, and leaves the edge list as it was when that triple was
\* stored already (for FOUNDED also when it was stored in the other order).
C2_EdgeDedup ==
    /\ \A i, j \in 1..Len(graph_edges) :
          EdgeTriple(graph_edges[i], SpecDirected) = EdgeTriple(graph_edges[j], SpecDirected)
              => i = j
    /\ Cardinality(edge_cache) = Len(graph_edges)
    /\ CallResolved =>
          LET triple == Canon(CallSource, CallTarget, call.c, SpecDirected)
              same(edges) == {i \in 1..Len(edges) : EdgeTriple(edges[i], SpecDirected) = triple}
          IN  /\ Cardinality(same(graph_edges)) = 1
              /\ same(call.before.graph_edges) # {}
                    => graph_edges = call.before.graph_edges

\* C2 witness: FOUNDED added as (Y, X) when it is stored as (X, Y)
C2_Witness ==
    /\ CallResolved
    /\ call.c = "FOUNDED"
    /\ CallSource # CallTarget
    /\ EdgesFromTo(call.before.graph_edges, CallTarget, CallSource, "FOUNDED") # {}
    /\ graph_edges = call.before.graph_edges

\* C3 as stated: every stored edge of a kind outside {OWNS, KEY_PERSON_OF,
\* PARENT_OF} has the smaller id as its stored source.
C3_StoredAscending ==
    \A i \in 1..Len(graph_edges) :
        graph_edges[i].label \notin SpecDirected
            => IdOf(graph_edges[i].source) <= IdOf(graph_edges[i].target)

\* C3 amended: for a kind outside {OWNS, KEY_PERSON_OF, PARENT_OF} the dedup key
\* has the smaller id first, while the stored edge keeps the order of the call that
\* created it; adding (X, Y) and then (Y, X) leaves the one edge of the first call.
C3_KeyAscending ==
    /\ \A k \in edge_cache : k[3] \notin SpecDirected => k[1] <= k[2]
    /\ \A i \in 1..Len(graph_edges) :
          EdgeTriple(graph_edges[i], SpecDirected) \in edge_cache
    /\ (CallResolved /\ call.c \notin SpecDirected) =>
          /\ Cardinality(EdgesBetween(graph_edges, CallSource, CallTarget, call.c)) = 1
          /\ IF EdgesBetween(call.before.graph_edges, CallSource, CallTarget, call.c) # {}
             THEN graph_edges = call.before.graph_edges
             ELSE graph_edges =
                     Append(call.before.graph_edges,
                            [id |-> "e" \o ToString(Len(call.before.graph_edges)),
                             source |-> ToString(CallSource),
                             target |-> ToString(CallTarget), label |-> call.c])

\* C3 witness: FOUNDED added in ascending order when it is stored in descending
\* order, which stays
C3_Witness ==
    /\ CallResolved
    /\ call.c = "FOUNDED"
    /\ CallSource < CallTarget
    /\ EdgesFromTo(graph_edges, CallTarget, CallSource, "FOUNDED") # {}
    /\ EdgesFromTo(graph_edges, CallSource, CallTarget, "FOUNDED") = {}

\* C4 as stated: after an add_edge of kind OWNS, KEY_PERSON_OF or FOUNDED with
\* both names registered, the edge source -> target of that kind is stored.
C4_FoundedDirected ==
    (CallResolved /\ call.c \in {"OWNS", "KEY_PERSON_OF", "FOUNDED"})
        => EdgesFromTo(graph_edges, CallSource, CallTarget, call.c) # {}

\* C4 amended: after an add_edge of kind OWNS, KEY_PERSON_OF or PARENT_OF with both
\* names registered, exactly one edge source -> target of that kind is stored and
\* the edges stored before are kept, so (X, Y) and then (Y, X) gives two edges.
C4_DirectedKept ==
    /\ call.op = "add_edge" => IsPrefix(call.before.graph_edges, graph_edges)
    /\ (CallResolved /\ call.c \in {"OWNS", "KEY_PERSON_OF", "PARENT_OF"})
          => Cardinality(EdgesFromTo(graph_edges, CallSource, CallTarget, call.c)) = 1

\* C4 witness: KEY_PERSON_OF stored as X -> Y and, by the last call, as Y -> X
C4_Witness ==
    /\ CallResolved
    /\ call.c = "KEY_PERSON_OF"
    /\ CallSource # CallTarget
    /\ EdgesFromTo(call.before.graph_edges, CallTarget, CallSource, call.c) # {}
    /\ EdgesFromTo(call.before.graph_edges, CallSource, CallTarget, call.c) = {}
    /\ Len(graph_edges) = 2
    /\ EdgesFromTo(graph_edges, CallSource, CallTarget, call.c) # {}

----------------------------------------------------------------------------
(* The claims about a traversal, under Spec *)

\* the positions of the company nodes labelled `label`
CompanyNodes(label) ==
    {i \in 1..Len(graph_nodes) :
        graph_nodes[i].label = label /\ graph_nodes[i].classes = "company"}

\* the fetched pages that list `title` under `relation`
PagesListing(relation, title) ==
    {x[1] : x \in {y \in extracted : y[2] = relation /\ y[3] = title}}

\* C5 as stated: when two fetched pages other than G list G as parent, there is one
\* company node G and, for each such child C, at most one OWNS edge between the
\* nodes of C and G.
C5_OneOwnsEdge ==
    \A x \in extracted :
        LET G == x[3]
            children == PagesListing("PARENT_OF", G) \ {G}
        IN  (x[2] = "PARENT_OF" /\ Cardinality(children) >= 2) =>
               /\ Cardinality(CompanyNodes(G)) = 1
               /\ \A C \in children :
                     \A i \in CompanyNodes(C), j \in CompanyNodes(G) :
                         Cardinality(EdgesBetween(graph_edges, IdOf(graph_nodes[i].id),
                                                  IdOf(graph_nodes[j].id), "OWNS")) <= 1

\* the events of the stream with this status
EventsOf(status) == {k \in 1..Len(events) : events[k].status = status}

\* the progress events whose work item has been dealt with
Handled == {k \in EventsOf("progress") : k < Len(events) \/ pc # "item"}

\* the name and the kind under which the engine registers an extracted item
RelatedName(x) == IF x[2] \in {"FOUNDED", "KEY_PERSON_OF"} THEN SplitParen(x[3]) ELSE x[3]
RelatedKind(x) == IF x[2] \in {"FOUNDED", "KEY_PERSON_OF"} THEN "person" ELSE "company"

\* C6: every queued work item has a depth in 0..max_depth and a parent fetched one
\* level above it; get_infobox_data is called only for items of depth at most
\* max_depth; a dequeued item is fetched at its own depth unless its name was
\* dequeued before; every extracted entity is registered; with max_depth = 0 only
\* the root is fetched.
C6_DepthBound ==
    /\ \A i \in 1..Len(queue) :
          /\ queue[i][3] \in 0..max_depth
          /\ queue[i][2] # None =>
                \E j \in 1..Len(fetched) :
                    fetched[j] = <<queue[i][2][1], queue[i][3] - 1>>
    /\ \A j \in 1..Len(fetched) : fetched[j][2] \in 0..max_depth
    /\ \A k \in Handled :
          (\A h \in EventsOf("progress") : h < k => events[h].cur # events[k].cur)
              => \E j \in 1..Len(fetched) : fetched[j] = <<events[k].cur, events[k].depth>>
    /\ \A x \in extracted : Registered(graph_nodes, RelatedName(x), RelatedKind(x))
    /\ max_depth = 0 => Len(fetched) <= 1 /\ Len(queue) <= 1

\* C6 witness: a finished run with max_depth >= 1 that fetched a page at depth
\* max_depth listing a company that was registered and never fetched
C6_Witness ==
    /\ pc = "complete"
    /\ max_depth >= 1
    /\ \E j \in 1..Len(fetched) : \E x \in extracted :
          /\ fetched[j][2] = max_depth
          /\ x[1] = fetched[j][1]
          /\ x[2] \in {"OWNS", "PARENT_OF"}
          /\ x[3] \notin visited
          /\ Registered(graph_nodes, x[3], "company")

\* C7 as stated: the resolver's fetch and the extractor's fetches together never
\* exceed the ceiling.
C7_AllFetches == fetches.resolver + fetches.extractor <= limit

\* C7 amended: the extractor's fetches never exceed the ceiling (they are the
\* processed items), the resolver fetches once, so a traversal makes at most
\* ceiling + 1 fetches.
C7_ExtractorFetches ==
    /\ fetches.extractor <= limit
    /\ fetches.extractor = processed
    /\ fetches.extractor = Len(fetched)
    /\ fetches.resolver <= 1
    /\ fetches.resolver + fetches.extractor <= limit + 1

\* C7 witness: the ceiling reached with work still queued
C7_Witness == fetches.extractor = limit /\ fetches.resolver = 1 /\ queue # <<>>

BaseWeight(kind) == IF kind = "company" THEN 4 ELSE 2

\* C8 as stated: in the complete event every weight is max(base, degree / 2),
\* the degree counting an edge once for each endpoint field that is the entity.
C8_EndpointFields ==
    pc = "complete" =>
       \A i \in 1..Len(graph_nodes) :
          LET n == graph_nodes[i]
              sources == {k \in 1..Len(graph_edges) : graph_edges[k].source = n.id}
              targets == {k \in 1..Len(graph_edges) : graph_edges[k].target = n.id}
          IN  n.weight = Max(BaseWeight(n.classes), Cardinality(sources) + Cardinality(targets))

\* C8 amended: in the complete event every weight is max(base, degree / 2), the
\* degree being the number of edges that have the entity as source or as target, a
\* self-loop counting once.
C8_EdgesTouching ==
    pc = "complete" =>
       /\ events[Len(events)].data = <<graph_nodes, graph_edges>>
       /\ \A i \in 1..Len(graph_nodes) :
             LET n == graph_nodes[i]
                 sources == {k \in 1..Len(graph_edges) : graph_edges[k].source = n.id}
                 targets == {k \in 1..Len(graph_edges) : graph_edges[k].target = n.id}
             IN  n.weight = Max(BaseWeight(n.classes), Cardinality(sources \cup targets))

\* C8 witness: a finished run with a self-loop on an entity whose weight is its degree
C8_Witness ==
    /\ pc = "complete"
    /\ \E i \in 1..Len(graph_nodes) : \E k \in 1..Len(graph_edges) :
          /\ graph_edges[k].source = graph_nodes[i].id
          /\ graph_edges[k].target = graph_nodes[i].id
          /\ graph_nodes[i].weight > BaseWeight(graph_nodes[i].classes)

\* C9: the stream is one log event, then progress events, then one terminal event
\* (error or complete) and nothing after it; the error event is there exactly when
\* find_wiki_page returned None, and then there is no progress event, no complete
\* event and no entity; a failed extraction yields no error event.
C9_EventOrder ==
    LET n == Len(events)
    IN  /\ (n = 0) <=> (pc = "idle")
        /\ n >= 1 => events[1].status = "log"
        /\ \A k \in 2..n :
              /\ events[k].status \in {"progress", "error", "complete"}
              /\ events[k].status \in {"error", "complete"} => k = n
        /\ (pc \in {"error", "complete"}) <=> (n >= 2 /\ events[n].status = pc)
        /\ (EventsOf("error") # {}) <=> (pc \notin {"idle", "resolve"} /\ root_title = None)
        /\ EventsOf("error") # {} =>
              /\ n = 2
              /\ graph_nodes = <<>> /\ graph_edges = <<>> /\ queue = <<>>
              /\ fetches.extractor = 0
        /\ fetches.extractor > 0 => EventsOf("error") = {}
        /\ Cardinality(EventsOf("progress")) >= fetches.extractor

\* C9 witness: a finished run, two pages fetched, one of them failed
C9_Witness ==
    /\ pc = "complete"
    /\ fetches.failed >= 1
    /\ fetches.extractor >= 2
    /\ Cardinality(EventsOf("progress")) >= 2

\* the terminal states of the engine
Terminal == pc \in {"error", "complete"}

\* how far the generator is from its end: the stage it is in, the items it may
\* still process, the items queued, and whether an item is popped and pending
Stage == CASE pc = "idle" -> 3
           [] pc = "resolve" -> 2
           [] pc \in {"loop", "item"} -> 1
           [] OTHER -> 0
Measure == <<Stage, limit - processed, Len(queue), IF pc = "item" THEN 1 ELSE 0>>

\* the lexicographic order on tuples of naturals of one length
LexLess(a, b) ==
    \E i \in 1..Len(a) : a[i] < b[i] /\ \A j \in 1..(i - 1) : a[j] = b[j]

\* a step of the generator is possible: the guard of one of its actions holds
CanStep ==
    \/ pc = "idle"
    \/ pc = "resolve" /\ Responses(root_company) # {}
    \/ pc = "loop" /\ loop_guard(queue, processed) /\ queue # <<>>
    \/ pc = "loop" /\ ~loop_guard(queue, processed)
    \/ pc = "item" /\ (item[3] > max_depth \/ item[1] \in visited \/ Pages(item[1]) # {})

\* C10: a started traversal reaches a terminal state: until then a step is always
\* possible, and every step lowers a measure that cannot fall for ever; once the
\* root is resolved the run never yields the error event; the loop is left with an
\* empty queue or with processed at the ceiling, and the run then ends with the
\* complete event, which carries the graph built.
C10_Termination ==
    /\ [](Terminal \/ CanStep)
    /\ [][LexLess(Measure', Measure)]_vars
    /\ [](\A i \in 1..Len(Measure) : Measure[i] >= 0)
    /\ [](~Falsy(root_title) => pc # "error" /\ EventsOf("error") = {})
    /\ [](pc = "complete" =>
            /\ ~Falsy(root_title)
            /\ queue = <<>> \/ processed = limit
            /\ events[Len(events)].status = "complete"
            /\ events[Len(events)].data = <<graph_nodes, graph_edges>>)

\* C10 witness: a run completed at the ceiling with work still queued
C10_Witness == pc = "complete" /\ processed = limit /\ queue # <<>>

----------------------------------------------------------------------------
(* Persons, dangling adds, the resolver *)

\* the extracted items that name a person
PersonItems == {x \in extracted : x[2] \in {"FOUNDED", "KEY_PERSON_OF"}}

\* the id of the entity (label, kind) of the node list
NodeOf(label, kind) ==
    IdOf(graph_nodes[CHOOSE i \in 1..Len(graph_nodes) :
                        graph_nodes[i].label = label /\ graph_nodes[i].classes = kind].id)

\* every work item but the root's was enqueued for a name its parent page lists
\* under a company relation
QueuedFromCompanyItems ==
    \A i \in 1..Len(queue) :
        queue[i][2] # None =>
            \E x \in extracted :
                /\ x[1] = queue[i][2][1]
                /\ x[2] \in {"OWNS", "PARENT_OF"}
                /\ x[3] = queue[i][1]

C12_DanglingDrop ==
    (call.op = "add_edge" /\ ~CallResolved) => RegistryOf(Self) = call.before

\* C12 witness: with one name registered and an edge stored, an add whose target
\* name is not registered
C12_Witness ==
    /\ call.op = "add_edge"
    /\ CallSource # NoneId
    /\ CallTarget = NoneId
    /\ Len(graph_edges) >= 1
    /\ Len(call.before.graph_nodes) >= 1

\* the resolver's fetch ended in a failure: an exception, or an error status
FetchFailed(r) == r.kind = "exception" \/ r.status_code >= 400

\* C13 as stated: once the root is resolved, a fetch that raised or came back with an
\* error status (404 or any other) gave None and the run stopped with the error
\* event; any other fetch gave the final title when redirected and the name passed
\* otherwise.
C13_FailureMapping ==
    pc \notin {"idle", "resolve"} =>
        IF FetchFailed(root_response)
        THEN /\ root_title = None
             /\ pc = "error"
             /\ events[Len(events)].status = "error"
             /\ events[Len(events)].cur = root_company
        ELSE IF root_response.history
        THEN root_title = Some(Replace(LastSegment(root_response.url), "_", " "))
        ELSE root_title = Some(root_company)

----------------------------------------------------------------------------
(* The visited set, the identifiers, the order of the fetches *)

\* the names get_infobox_data was called for
FetchedNames == {fetched[j][1] : j \in 1..Len(fetched)}

\* C14: the visited set is the set of names extraction was attempted for and only
\* grows; no name is extracted twice; a dequeued item whose name is visited is
\* dropped with no fetch, no edge, no node and no change of processed.
C14_VisitedSet ==
    /\ [](visited = FetchedNames)
    /\ [](\A i, j \in 1..Len(fetched) : fetched[i][1] = fetched[j][1] => i = j)
    /\ [][visited \subseteq visited']_vars
    /\ [][(pc = "item" /\ item[1] \in visited) =>
             /\ pc' = "loop"
             /\ UNCHANGED <<registry, visited, queue, processed, fetches, fetched>>]_vars

\* C14 witness: a finished run that dropped a dequeued item as visited after
\* fetching two pages
C14_Witness ==
    /\ pc = "complete"
    /\ Len(fetched) >= 2
    /\ Cardinality(EventsOf("progress")) > Len(fetched)
    /\ \A k \in EventsOf("progress") : events[k].depth <= max_depth

\* C15: the node at position i (counted from 0) has id i, so ids are distinct and
\* the counter is the number of nodes; the cache maps each (label, kind) to the
\* position of its node; a resolved root is the company node 0; a step only appends
\* nodes and leaves the id, label and kind of every node as they were.
C15_Identifiers ==
    /\ [](/\ \A i \in 1..Len(graph_nodes) : graph_nodes[i].id = ToString(i - 1)
          /\ \A i, j \in 1..Len(graph_nodes) :
                graph_nodes[i].id = graph_nodes[j].id => i = j
          /\ node_id_counter = Len(graph_nodes)
          /\ Len(node_cache) = Len(graph_nodes)
          /\ \A i \in 1..Len(node_cache) :
                /\ node_cache[i].nid = i - 1
                /\ node_cache[i].key = <<graph_nodes[i].label, graph_nodes[i].classes>>)
    /\ [](pc \in {"loop", "item", "complete"} =>
             /\ Len(graph_nodes) >= 1
             /\ graph_nodes[1].label = root_title[1]
             /\ graph_nodes[1].classes = "company")
    /\ [][/\ Len(graph_nodes') >= Len(graph_nodes)
          /\ \A i \in 1..Len(graph_nodes) :
                /\ graph_nodes'[i].id = graph_nodes[i].id
                /\ graph_nodes'[i].label = graph_nodes[i].label
                /\ graph_nodes'[i].classes = graph_nodes[i].classes]_vars

\* C15 witness: a finished run with four entities, one name registered under both
\* kinds, and a weight rewritten by the final calculation
C15_Witness ==
    /\ pc = "complete"
    /\ Len(graph_nodes) >= 4
    /\ \E i, j \in 1..Len(graph_nodes) :
          i < j /\ graph_nodes[i].label = graph_nodes[j].label
    /\ \E i \in 1..Len(graph_nodes) : graph_nodes[i].weight \notin {2, 4}

\* the company relations extracted so far, as (page, listed name)
CompanyLinks == {<<x[1], x[3]>> : x \in {y \in extracted : y[2] \in {"OWNS", "PARENT_OF"}}}

\* the names within k company links of the root
RECURSIVE Within(_)
Within(k) ==
    IF k = 0 THEN {root_title[1]}
    ELSE LET near == Within(k - 1)
         IN  near \cup {e[2] : e \in {f \in CompanyLinks : f[1] \in near}}

\* the shortest distance of a reachable name from the root
Dist(name) ==
    CHOOSE k \in 0..Cardinality(CompanyLinks) :
        name \in Within(k) /\ (k = 0 \/ name \notin Within(k - 1))

\* the depths of successive fetches never decrease
DepthsAscend == \A j \in 2..Len(fetched) : fetched[j - 1][2] <= fetched[j][2]

\* at the end of a run that did not reach the ceiling
Untruncated == pc = "complete" /\ processed < limit

\* C16 as stated: the depths of successive fetches never decrease and, in a run that
\* did not reach the ceiling, every entity was fetched at its shortest distance
\* from the root along the extracted company relations.
C16_BreadthFirst ==
    /\ DepthsAscend
    /\ Untruncated => \A j \in 1..Len(fetched) : fetched[j][2] = Dist(fetched[j][1])

\* C16 amended: every item fetched at depth d > 0 is listed under a company relation
\* by a page fetched at depth d - 1, so its depth is at least its shortest
\* distance; the order is breadth-first (depths never decrease, each entity fetched
\* at its shortest distance) in the runs that extracted no PARENT_OF relation, whose
\* items are the ones put at the front of the queue.
C16_FifoButParents ==
    /\ \A j \in 1..Len(fetched) :
          IF fetched[j][2] = 0 THEN j = 1 /\ fetched[j][1] = root_title[1]
          ELSE \E i \in 1..(j - 1) :
                  /\ fetched[i][2] = fetched[j][2] - 1
                  /\ <<fetched[i][1], fetched[j][1]>> \in CompanyLinks
    /\ Untruncated => \A j \in 1..Len(fetched) : fetched[j][2] >= Dist(fetched[j][1])
    /\ (\A x \in extracted : x[2] # "PARENT_OF") =>
          /\ DepthsAscend
          /\ \A i \in 1..Len(queue) :
                /\ \A j \in 1..Len(fetched) : fetched[j][2] <= queue[i][3]
                /\ \A k \in 1..(i - 1) : queue[k][3] <= queue[i][3]
          /\ Untruncated => \A j \in 1..Len(fetched) : fetched[j][2] = Dist(fetched[j][1])

\* C16 witness: a finished run in which a PARENT_OF item went to the front of the
\* queue and an entity was fetched deeper than its shortest distance
C16_Witness ==
    /\ Untruncated
    /\ \E x \in extracted : x[2] = "PARENT_OF"
    /\ \E j \in 1..Len(fetched) : fetched[j][2] > Dist(fetched[j][1])

\* the work item w was enqueued by its parent page for a relation of kind rel
DerivedFrom(w, rel, ex) == w[2] # None /\ <<w[2][1], rel, w[1]>> \in ex

\* the queue is a run of PARENT_OF-derived items followed by a run of other items
ParentsFirst(q, ex) ==
    \E k \in 0..Len(q) :
        /\ \A i \in 1..k : DerivedFrom(q[i], "PARENT_OF", ex)
        /\ \A i \in (k + 1)..Len(q) : q[i][2] = None \/ DerivedFrom(q[i], "OWNS", ex)

\* the work items a page enqueues for the names it lists under rel
Enqueued(cur, depth, rel, ex, vis) ==
    {<<x[3], Some(cur), depth + 1>> :
        x \in {y \in ex : y[1] = cur /\ y[2] = rel /\ y[3] \notin vis /\ depth + 1 <= max_depth}}

\* the step that fetches the popped item puts the PARENT_OF items of its page in
\* front of the items queued before and the OWNS items behind them
FrontAndBack ==
    (pc = "item" /\ processed' = processed + 1) =>
        \E a \in 0..(Len(queue') - Len(queue)) :
            LET front == SubSeq(queue', 1, a)
                back == SubSeq(queue', a + Len(queue) + 1, Len(queue'))
            IN  /\ SubSeq(queue', a + 1, a + Len(queue)) = queue
                /\ Range(front) = Enqueued(item[1], item[3], "PARENT_OF", extracted', visited')
                /\ Range(back) = Enqueued(item[1], item[3], "OWNS", extracted', visited')

\* C17: a fetch puts its PARENT_OF items at the front of the queue and its other
\* items at the back, the loop takes the item at the front, and so in every state
\* the PARENT_OF-derived items of the queue precede all other queued items.
C17_ParentPriority ==
    /\ [](ParentsFirst(queue, extracted))
    /\ [][FrontAndBack]_vars
    /\ [][(pc = "loop" /\ pc' = "item") => item' = Head(queue) /\ queue' = Tail(queue)]_vars

\* C17 witness: a PARENT_OF item of a later page stands in the queue before an OWNS
\* item of an earlier page
C17_Witness ==
    /\ pc = "loop"
    /\ Len(queue) >= 2
    /\ queue[1][2] # queue[2][2]
    /\ DerivedFrom(queue[1], "PARENT_OF", extracted)
    /\ ~DerivedFrom(queue[1], "OWNS", extracted)
    /\ DerivedFrom(queue[2], "OWNS", extracted)
    /\ ~DerivedFrom(queue[2], "PARENT_OF", extracted)
    /\ \E i, j \in 1..Len(fetched) :
          i < j /\ fetched[i][1] = queue[2][2][1] /\ fetched[j][1] = queue[1][2][1]

----------------------------------------------------------------------------
(* The edges requested, the progress events, the lookup *)

\* the edge the direction rule gives for an extracted item
RuleEdge(x) ==
    CASE x[2] \in {"FOUNDED", "KEY_PERSON_OF"} -> <<RelatedName(x), x[1], x[2]>>
      [] x[2] = "PARENT_OF" -> <<x[3], x[1], "OWNS">>
      [] x[2] = "OWNS" -> <<x[1], x[3], "OWNS">>

\* the parent -> current links of the items fetched below the root
IsParentLink(r) ==
    /\ r[3] = "OWNS"
    /\ <<r[1], r[2]>> \in CompanyLinks
    /\ \E j \in 1..Len(fetched) : fetched[j][1] = r[2] /\ fetched[j][2] > 0

\* the node at position a is the first of the node list with its label
FirstNamed(a) == \A j \in 1..(a - 1) : graph_nodes[j].label # graph_nodes[a].label

\* C18: the add_edge calls of a traversal are one per extracted link, the edge the
\* direction rule gives for it, and one parent link per item fetched below the
\* root; every stored edge is a requested edge between the entities its names
\* resolve to, and its kind is OWNS, FOUNDED or KEY_PERSON_OF.
C18_DirectionRule ==
    LET asked == Range(requested)
        ruled == {RuleEdge(x) : x \in extracted}
    IN  /\ ruled \subseteq asked
        /\ \A r \in asked \ ruled : IsParentLink(r)
        /\ Len(requested) =
              links_read + Cardinality({j \in 1..Len(fetched) : fetched[j][2] > 0})
        /\ \A i \in 1..Len(graph_edges) :
              /\ graph_edges[i].label \in {"OWNS", "FOUNDED", "KEY_PERSON_OF"}
              /\ \E a \in 1..Len(graph_nodes) :
                    /\ graph_nodes[a].id = graph_edges[i].source
                    /\ FirstNamed(a)
                    /\ \E b \in 1..Len(graph_nodes) :
                          /\ graph_nodes[b].id = graph_edges[i].target
                          /\ FirstNamed(b)
                          /\ <<graph_nodes[a].label, graph_nodes[b].label,
                                graph_edges[i].label>> \in asked

\* C18 witness: a finished run that extracted a PARENT_OF link, an OWNS link and a
\* link to a person, fetched a page below the root, and stored an OWNS edge into
\* the root for a PARENT_OF link of the root's page
C18_Witness ==
    /\ pc = "complete"
    /\ \E x \in extracted : x[2] = "OWNS"
    /\ PersonItems # {}
    /\ Len(fetched) >= 2
    /\ \E x \in extracted :
          /\ x[2] = "PARENT_OF" /\ x[1] = root_title[1] /\ x[3] # x[1]
          /\ EdgesFromTo(graph_edges, NodeNamed(graph_nodes, x[3]), 0, "OWNS") # {}

\* C19 as stated: the progress event of a dequeued item carries the item and
\* floor(100 * processed / limit); progress percents lie in 0..99 and never
\* decrease along the stream; only the complete event carries 100.
C19_FloorPercent ==
    /\ pc = "item" =>
          /\ events[Len(events)].status = "progress"
          /\ events[Len(events)].cur = item[1]
          /\ events[Len(events)].depth = item[3]
          /\ events[Len(events)].percent = (100 * processed) \div limit
    /\ \A k \in EventsOf("progress") : events[k].percent \in 0..99
    /\ \A k \in 2..Len(events) :
          (events[k - 1].status = "progress" /\ events[k].status = "progress")
              => events[k - 1].percent <= events[k].percent
    /\ \A k \in 1..Len(events) :
          (events[k].percent = 100) <=> (events[k].status = "complete")

\* the positions of the nodes of `nodes` labelled `label`
Labelled(nodes, label) == {i \in 1..Len(nodes) : nodes[i].label = label}

\* C20: get_node_id of a name no entity carries returns None, otherwise the id of
\* the first entity of the node list with that name, whatever its kind, and it
\* changes nothing; an add_edge that stores an edge stores it between the first
\* entities carrying its two names.
C20_FirstByName ==
    /\ call.op = "get_node_id" =>
          /\ RegistryOf(Self) = call.before
          /\ IF Labelled(graph_nodes, call.a) = {} THEN call.ret = NoneId
             ELSE \E i \in Labelled(graph_nodes, call.a) :
                     /\ \A j \in Labelled(graph_nodes, call.a) : i <= j
                     /\ graph_nodes[i].id = ToString(call.ret)
    /\ (call.op = "add_edge" /\ graph_edges # call.before.graph_edges) =>
          \E i \in Labelled(graph_nodes, call.a), k \in Labelled(graph_nodes, call.b) :
              /\ \A j \in Labelled(graph_nodes, call.a) : i <= j
              /\ \A j \in Labelled(graph_nodes, call.b) : k <= j
              /\ graph_edges[Len(graph_edges)].source = graph_nodes[i].id
              /\ graph_edges[Len(graph_edges)].target = graph_nodes[k].id

\* C20 witness: a name registered as a person and then as a company, and an edge
\* added by that name, stored at the person
C20_Witness ==
    /\ call.op = "add_edge"
    /\ graph_edges # call.before.graph_edges
    /\ Cardinality(Labelled(graph_nodes, call.a)) = 2
    /\ \E i \in Labelled(graph_nodes, call.a) :
          /\ graph_nodes[i].classes = "person"
          /\ graph_edges[Len(graph_edges)].source = graph_nodes[i].id
    /\ \E i \in Labelled(graph_nodes, call.a) :
          /\ graph_nodes[i].classes = "company"
          /\ graph_edges[Len(graph_edges)].source # graph_nodes[i].id

----------------------------------------------------------------------------
(* The shape of the edge list, the kinds of the endpoints, the dangling adds *)

\* the ids of the node list
NodeIds == {graph_nodes[i].id : i \in 1..Len(graph_nodes)}

\* C21: the endpoints of every stored edge are ids of the node list; the edge at
\* position i (counted from 0) has id "e<i>", so the ids are distinct; there are
\* as many edges as dedup keys; a step only appends to the edge list.
C21_EdgeList ==
    /\ [](\A i \in 1..Len(graph_edges) :
             /\ graph_edges[i].source \in NodeIds
             /\ graph_edges[i].target \in NodeIds
             /\ graph_edges[i].id = "e" \o ToString(i - 1))
    /\ [](\A i, j \in 1..Len(graph_edges) :
             graph_edges[i].id = graph_edges[j].id => i = j)
    /\ [](Len(graph_edges) = Cardinality(edge_cache))
    /\ [][IsPrefix(graph_edges, graph_edges')]_vars

\* C21 witness: a finished run with three edges, one of them a self-loop and one of
\* them between two entities, after an add that was merged into a stored edge
C21_Witness ==
    /\ pc = "complete"
    /\ Len(graph_edges) = 3
    /\ Len(requested) > Len(graph_edges)
    /\ \E i \in 1..Len(graph_edges) : graph_edges[i].source = graph_edges[i].target
    /\ \E i \in 1..Len(graph_edges) : graph_edges[i].source # graph_edges[i].target

\* the kind of the entity with this id
KindOf(id) == graph_nodes[CHOOSE i \in 1..Len(graph_nodes) : graph_nodes[i].id = id].classes

\* C22 as stated: the source of every stored FOUNDED or KEY_PERSON_OF edge is an
\* entity of kind person and its target an entity of kind company.
C22_PersonSources ==
    \A i \in 1..Len(graph_edges) :
        graph_edges[i].label \in {"FOUNDED", "KEY_PERSON_OF"} =>
            /\ KindOf(graph_edges[i].source) = "person"
            /\ KindOf(graph_edges[i].target) = "company"

\* the labels of the node list
NodeLabels == {graph_nodes[i].label : i \in 1..Len(graph_nodes)}

\* C23: every name and every parent name of the queue and of the popped item is
\* registered; both names of every add_edge call of the traversal are registered;
\* no call returned at the None check, so every requested edge is stored or was
\* merged into a stored one.
C23_NoDanglingAdd ==
    /\ \A i \in 1..Len(queue) :
          /\ queue[i][1] \in NodeLabels
          /\ queue[i][2] # None => queue[i][2][1] \in NodeLabels
    /\ pc = "item" => /\ item[1] \in NodeLabels
                      /\ item[2] # None => item[2][1] \in NodeLabels
    /\ \A k \in 1..Len(requested) :
          /\ requested[k][1] \in NodeLabels
          /\ requested[k][2] \in NodeLabels
    /\ dropped = 0
    /\ LET first  == {i \in 1..Len(graph_nodes) : FirstNamed(i)}
           named  == {<<graph_nodes[i].label, graph_nodes[i].id>> : i \in first}
           stored == {<<graph_edges[i].source, graph_edges[i].target, graph_edges[i].label>> :
                         i \in 1..Len(graph_edges)}
       IN  \A r \in Range(requested) :
               \E p \in named :
                   /\ p[1] = r[1]
                   /\ \E q \in named :
                         /\ q[1] = r[2]
                         /\ \/ <<p[2], q[2], r[3]>> \in stored
                            \/ <<q[2], p[2], r[3]>> \in stored

\* C23 witness: a finished run that made a parent link and an add for each of a
\* PARENT_OF, an OWNS and a person link
C23_Witness ==
    /\ pc = "complete"
    /\ Len(requested) >= 4
    /\ \E j \in 1..Len(fetched) : fetched[j][2] > 0
    /\ \E x \in extracted : x[2] = "PARENT_OF"
    /\ \E x \in extracted : x[2] = "OWNS"
    /\ PersonItems # {}

====
